---- MODULE Spec2Model ----
(***************************************************************************)
(* Model of DeepFilterNet/df/evaluation_utils.py: the Metric protocol      *)
(* (Metric, MPMetric, NoisyMetric), the remote scoring request             *)
(* (mos_api_req) and the evaluation loops that drive them over a worker    *)
(* pool (multiprocessing Pool / ThreadPool).                               *)
(*                                                                         *)
(* Three specifications share the definitions:                             *)
(*   Spec       evaluation_loop with pooled metrics (MPMetric)             *)
(*   SpecLocal  a Metric driven through Metric.add / mean / flattend       *)
(*   SpecRemote evaluation_loop_dns with remote metrics (NoisyMetric and   *)
(*              mos_api_req), add being handed signals of several shapes   *)
(***************************************************************************)
EXTENDS Integers, Sequences, FiniteSets, TLC

VARIABLES
    name,            \* per metric: self.name, a str or a list of str
    enh_values,      \* per metric: ordered dict  name -> list of (fn, value)
    noisy_values,    \* per metric: ordered dict  name -> list of (fn, value)
    worker_results,  \* per metric: deque of pending handles (job ids)
    pool,            \* the shared pool: state, processes, close/join calls
    jobs,            \* the pool's jobs (ApplyResult + task), by job id
    outqueue,        \* results computed by workers, not yet handled
    logged,          \* job ids handed to logger.error
    cfg,             \* the inputs of the run
    pc,              \* position of the calling thread
    fi,              \* index of the file being processed
    mi,              \* index of the metric being processed
    h,               \* the handle the calling thread holds (0: none)
    out_dict,        \* evaluation loop: merged means
    raised,          \* the exception the calling thread ended with, or NoExc
    ret              \* result of the last completed call of the harness

vars == <<name, enh_values, noisy_values, worker_results, pool, jobs, outqueue,
          logged, cfg, pc, fi, mi, h, out_dict, raised, ret>>

metricVars == <<name, enh_values, noisy_values>>
poolVars == <<worker_results, pool, jobs, outqueue, logged>>
loopVars == <<cfg, pc, fi, mi, h, out_dict, raised>>

-----------------------------------------------------------------------------
(* Bounds of the model *)

MaxFiles == 2
MaxMetrics == 2
MaxWorkers == 2
MaxAdds == 2
MaxVec == 3
MaxFailures == 1
MaxPairs == 4

(* Program constants *)

MaxTries == 20

Values == {1, 2}
NoExc == "none"
None == "None"

Min(a, b) == IF a < b THEN a ELSE b
Max(a, b) == IF a > b THEN a ELSE b

RECURSIVE SumSeq(_)
SumSeq(s) == IF s = <<>> THEN 0 ELSE Head(s) + SumSeq(Tail(s))

-----------------------------------------------------------------------------
(* Python values *)

\* a str name or a list of names
StrName(n) == [str |-> TRUE, list |-> <<n>>]
ListName(l) == [str |-> FALSE, list |-> l]

\* what a formula returns: a float, or an array of floats
Float(x) == [float |-> TRUE, data |-> <<x>>]
Array(d) == [float |-> FALSE, data |-> d]

\* os.path.basename of the i-th file of the list
FileNames == <<"f1.wav", "f2.wav", "f3.wav", "f4.wav">>
FileName(i) == FileNames[i]

-----------------------------------------------------------------------------
(* Ordered dict: a sequence of [k, v] in insertion order *)

Keys(d) == [i \in 1..Len(d) |-> d[i].k]
HasKey(d, key) == \E i \in 1..Len(d) : d[i].k = key
IndexOf(d, key) == CHOOSE i \in 1..Len(d) : d[i].k = key
Get(d, key) == d[IndexOf(d, key)].v
DictSet(d, key, val) ==
    IF HasKey(d, key)
    THEN [d EXCEPT ![IndexOf(d, key)].v = val]
    ELSE Append(d, [k |-> key, v |-> val])

-----------------------------------------------------------------------------
(* class Metric *)

\* Metric.__init__: {name: []} for a str, {n: [] for n in name} for a list
InitValues(nm) == [i \in 1..Len(nm.list) |-> [k |-> nm.list[i], v |-> <<>>]]

\* np.asarray([values]) for a float, the array itself otherwise
AsArrayDropsFloat(values) == IF values.float THEN Array(<<>>) ELSE values
AsArray(values) == IF values.float THEN Array(values.data) ELSE values

\* zip(keys, values): stops at the shorter of the two
ZipLenDropsLast(d, arr) == Min(Len(d), Len(arr.data)) - 1
ZipLen(d, arr) == Min(Len(d), Len(arr.data))

\* Metric._add_values_enh / _add_values_noisy on the dict d
AddValuesKeepsFilled(d, values, fn) ==
    LET arr == AsArray(values)
        n == ZipLen(d, arr)
    IN  [i \in 1..n |-> [k |-> d[i].k, v |-> Append(d[i].v, <<fn, arr.data[i]>>)]]
AddValues(d, values, fn) ==
    LET arr == AsArray(values)
        n == ZipLen(d, arr)
    IN  [i \in 1..Len(d) |->
            IF i <= n
            THEN [k |-> d[i].k, v |-> Append(d[i].v, <<fn, arr.data[i]>>)]
            ELSE d[i]]

\* np.mean of the values of a list of records: sum / count (count 0: nan)
RecValues(l) == [i \in 1..Len(l) |-> l[i][2]]
NpMeanCountsOneMore(l) == [sum |-> SumSeq(RecValues(l)), cnt |-> Len(l) + 1]
NpMean(l) == [sum |-> SumSeq(RecValues(l)), cnt |-> Len(l)]

Label(kind, n) == <<kind, n>>

\* Metric.mean
RECURSIVE MeanFrom(_, _, _, _)
MeanFrom(enh, noisy, i, out) ==
    IF i > Len(enh) THEN out
    ELSE LET n == enh[i].k
             o1 == IF HasKey(noisy, n) /\ Len(Get(noisy, n)) > 0
                   THEN DictSet(out, Label("Noisy", n), NpMean(Get(noisy, n)))
                   ELSE out
             o2 == DictSet(o1, Label("Enhanced", n), NpMean(enh[i].v))
         IN  MeanFrom(enh, noisy, i + 1, o2)

MetricMean(enh, noisy) == MeanFrom(enh, noisy, 1, <<>>)

\* flat[fn or ""][n] = v on a plain dict: KeyError when flat has no key fn
FnOrEmpty(fn) == IF fn = None THEN "" ELSE fn
SetItem2(flat, fn, n, v) ==
    IF flat.exc # NoExc THEN flat
    ELSE IF ~HasKey(flat.d, FnOrEmpty(fn))
         THEN [flat EXCEPT !.exc = "KeyError"]
         ELSE [flat EXCEPT !.d = DictSet(flat.d, FnOrEmpty(fn),
                                   DictSet(Get(flat.d, FnOrEmpty(fn)), n, v))]

RECURSIVE SetAll(_, _, _, _)
SetAll(flat, l, n, j) ==
    IF j > Len(l) THEN flat
    ELSE SetAll(SetItem2(flat, l[j][1], n, l[j][2]), l, n, j + 1)

\* Metric.flattend: [exc, d]; the first exception ends the call
RECURSIVE FlattendFrom(_, _, _, _, _)
FlattendFrom(enh, noisy, i, ef, nf) ==
    IF i > Len(enh) \/ ef.exc # NoExc \/ nf.exc # NoExc
    THEN [enh_flat |-> ef, noisy_flat |-> nf]
    ELSE LET n == enh[i].k
             nf2 == IF HasKey(noisy, n) /\ Len(Get(noisy, n)) > 0
                    THEN SetAll(nf, Get(noisy, n), n, 1)
                    ELSE nf
             ef2 == IF nf2.exc # NoExc THEN ef ELSE SetAll(ef, enh[i].v, n, 1)
         IN  FlattendFrom(enh, noisy, i + 1, ef2, nf2)

Flattend(enh, noisy, want_noisy) ==
    LET empty == [exc |-> NoExc, d |-> <<>>]
        r == FlattendFrom(enh, noisy, 1, empty, empty)
    IN  IF r.noisy_flat.exc # NoExc THEN [exc |-> r.noisy_flat.exc, d |-> <<>>]
        ELSE IF r.enh_flat.exc # NoExc THEN [exc |-> r.enh_flat.exc, d |-> <<>>]
        ELSE IF want_noisy THEN r.noisy_flat ELSE r.enh_flat

-----------------------------------------------------------------------------
(* The metric registries of the two loops and the formulas *)

\* metrics_dict of evaluation_loop and of evaluation_loop_dns: key -> self.name
MetricName(key) ==
    CASE key = "stoi" -> StrName("STOI")
      [] key = "sisdr" -> StrName("SISDR")
      [] key = "composite" -> ListName(<<"PESQ", "CSIG", "CBAK", "COVL", "SSNR">>)
      [] key = "composite-octave" -> ListName(<<"PESQ", "CSIG", "CBAK", "COVL", "SSNR">>)
      [] key = "pesq" -> StrName("PESQ")
      [] key = "pesq-nb" -> StrName("PESQ-NB")
      [] key = "p808" -> StrName("MOS")
      [] key = "p835" -> ListName(<<"SIGMOS", "BAKMOS", "OVLMOS">>)

\* the keys the modelled runs select from
CorpusKeys == {"composite", "pesq"}
RemoteKeys == {"p808", "p835"}

SeqsUpTo(S, n) == UNION {[1..k -> S] : k \in 0..n}

\* compute_metric of a registry metric whose formula scores the signal v: a
\* float for a str name, one value per declared name otherwise
FormulaValue(nm, v) ==
    IF nm.str THEN Float(v)
    ELSE Array([i \in 1..Len(nm.list) |-> v + 1000 * (i - 1)])

\* the corpus: what the formula of metric m scores the signals of file f, of
\* which base is the part the run's input draws
Score(base, m, f) == 100 * m + 10 * f + base

-----------------------------------------------------------------------------
(* The worker pool: Pool.apply_async, the workers, the result handler *)

\* positional arguments func(*args) receives: a tuple hands its items; a
\* tensor is iterated along its first dimension, a 0-d tensor cannot be (-1)
TupleArgs(n) == [tuple |-> TRUE, shape |-> <<n>>]
TensorArgs(shape) == [tuple |-> FALSE, shape |-> shape]
Unpack(args) ==
    IF args.tuple THEN args.shape[1]
    ELSE IF args.shape = <<>> THEN -1 ELSE args.shape[1]

\* Tensor.squeeze(0): drops the first dimension when it is 1
Squeeze0(shape) ==
    IF shape # <<>> /\ shape[1] = 1 THEN Tail(shape) ELSE shape

\* positional parameters of compute_metric besides self
Arity(loop) == IF loop = "corpus" THEN 2 ELSE 1

\* the local variable e of mos_api_req: the placeholder "", the exception of
\* the k-th request (k), or unbound
Placeholder == 0
Unbound == -1

NewJob(m, f, kind, args) ==
    [m |-> m, f |-> f, kind |-> kind, nargs |-> Unpack(args), st |-> "queued",
     ok |-> FALSE, val |-> Array(<<>>), exc |-> NoExc, carried |-> Placeholder,
     tries |-> 0, sent |-> 0, answered |-> 0, retried |-> FALSE, last |-> FALSE]

Unfinished == {j \in 1..Len(jobs) : jobs[j].st = "queued"}
Outstanding == {j \in 1..Len(jobs) : jobs[j].st # "ready"}
JobsOf(m) == {j \in 1..Len(jobs) : jobs[j].m = m}

AliveUntilClosed == pool.state = "RUN"
Alive == pool.state # "TERMINATE"

\* the calls of mos_api_req that met a raising request so far
Troubled == {j \in 1..Len(jobs) : jobs[j].retried}

\* the computations that raised so far
Failed == {j \in 1..Len(jobs) : jobs[j].st \in {"computed", "ready"} /\ ~jobs[j].ok}

\* the tasks the workers are executing: each of the pool's processes takes the
\* oldest task nobody has taken, so the oldest `processes` unfinished ones
RunningAnyTask == Unfinished
Running ==
    {j \in Unfinished : Cardinality({q \in Unfinished : q < j}) < pool.processes}

Computed(j, ok, val, exc) ==
    /\ jobs' = [jobs EXCEPT ![j].st = "computed", ![j].ok = ok, ![j].val = val,
                            ![j].exc = exc]
    /\ outqueue' = Append(outqueue, j)

\* worker: result = (True, func(*args)) or (False, e), put on the outqueue;
\* the formula of a corpus metric returns a value or raises
WorkerCompute ==
    /\ Alive
    /\ cfg.loop = "corpus"
    /\ \E j \in Running :
        /\ jobs[j].st = "queued"
        /\ IF jobs[j].nargs # Arity(cfg.loop)
           THEN Computed(j, FALSE, Array(<<>>), "TypeError")
           ELSE \/ Computed(j, TRUE, FormulaValue(name[jobs[j].m],
                                Score(cfg.base[jobs[j].kind], jobs[j].m, jobs[j].f)), NoExc)
                \/ /\ Cardinality(Failed) < MaxFailures
                   /\ Computed(j, FALSE, Array(<<>>), "FormulaError")
    /\ UNCHANGED <<metricVars, worker_results, pool, logged, loopVars, ret>>

\* result handler, ApplyResult._set: callback(value) or error_callback(value),
\* then self._event.set() and the job leaves the cache; the frame of the call
\* (tries, e, the requests it sent) is gone by then; retried keeps whether a
\* request of the call raised, last whether its last permitted one was answered
HandleResult ==
    /\ Alive
    /\ outqueue # <<>>
    /\ LET j == Head(outqueue)
           m == jobs[j].m
           fn == FileName(jobs[j].f)
       IN  /\ jobs' = [jobs EXCEPT ![j].st = "ready", ![j].tries = 0, ![j].sent = 0,
                                   ![j].answered = 0]
           /\ IF jobs[j].ok
              THEN /\ IF jobs[j].kind = "enh"
                      THEN /\ enh_values' = [enh_values EXCEPT ![m] = AddValues(@, jobs[j].val, fn)]
                           /\ UNCHANGED noisy_values
                      ELSE /\ noisy_values' = [noisy_values EXCEPT ![m] = AddValues(@, jobs[j].val, fn)]
                           /\ UNCHANGED enh_values
                   /\ UNCHANGED logged
              ELSE /\ logged' = logged \cup {j}
                   /\ UNCHANGED <<enh_values, noisy_values>>
    /\ outqueue' = Tail(outqueue)
    /\ UNCHANGED <<name, worker_results, pool, loopVars, ret>>

\* ApplyResult.get returns (or raises) once the event is set
ReadyNoWait(j) == TRUE
Ready(j) == jobs[j].st = "ready"

\* ApplyResult.get: return self._value if self._success, else raise it
GetSwallows(j) == FALSE
GetRaises(j) == ~jobs[j].ok

-----------------------------------------------------------------------------
(* Remote metrics: the worker runs compute_metric -> mos_api_req *)

\* the scoring service as the call meets it: request number i is answered
\* (TRUE) or raises (FALSE); AnswersFrom(k) raises on the first k - 1 requests
AnswersFrom(k) == [i \in 1..(MaxTries + 2) |-> i >= k]

\* the services the model meets: answering at once, after one failure, on the
\* last permitted request, and only after it
FirstAnswers == {1, 2, MaxTries, MaxTries + 1}

\* while tries < 20
TryAgainOffByOne(tries) == tries <= MaxTries
TryAgain(tries) == tries < MaxTries

\* the value of e after the except clause that bound it to exception k has
\* been left: the name is deleted
AfterExcept(k) == Unbound

\* the loop of mos_api_req from the state (tries, e) with `sent` requests
\* issued so far; the result tells how the call ended
RECURSIVE MosLoop(_, _, _, _)
MosLoop(answers, tries, e, sent) ==
    IF TryAgain(tries)
    THEN IF answers[sent + 1]
         THEN \* resp = requests.post(...); return resp.json()
              [ok |-> TRUE, exc |-> NoExc, carried |-> Placeholder, tries |-> tries,
               sent |-> sent + 1, answered |-> sent + 1]
         ELSE \* except Exception as e: ...; tries += 1; continue
              MosLoop(answers, tries + 1, AfterExcept(sent + 1), sent + 1)
    ELSE \* raise ValueError("Error gettimg mos:", e)
         [ok |-> FALSE, exc |-> IF e = Unbound THEN "UnboundLocalError" ELSE "ValueError",
          carried |-> e, tries |-> tries, sent |-> sent, answered |-> 0]

\* tries = 0; e = ""; while ...
MosApiReq(answers) == MosLoop(answers, 0, Placeholder, 0)

\* compute_metric on the score payload: float(score_dict["mos"]) or the array
\* of (mos_sig, mos_bak, mos_ovr)
ScoreValue(j) ==
    FormulaValue(name[jobs[j].m], Score(cfg.base[jobs[j].kind], jobs[j].m, jobs[j].f))

\* the worker calls compute_metric(*args): a TypeError unless exactly one
\* argument arrives; otherwise compute_metric runs mos_api_req, which only
\* touches its own frame and the network
WorkerInvoke ==
    /\ Alive
    /\ cfg.loop = "dns"
    /\ \E j \in Running :
        /\ jobs[j].st = "queued"
        /\ IF jobs[j].nargs # Arity(cfg.loop)
           THEN Computed(j, FALSE, Array(<<>>), "TypeError")
           ELSE \E k \in FirstAnswers :
                  LET r == MosApiReq(AnswersFrom(k))
                  IN  /\ k = 1 \/ Cardinality(Troubled) < MaxFailures
                      /\ jobs' = [jobs EXCEPT ![j].st = "computed", ![j].ok = r.ok,
                                    ![j].val = IF r.ok THEN ScoreValue(j) ELSE Array(<<>>),
                                    ![j].exc = r.exc, ![j].carried = r.carried,
                                    ![j].tries = r.tries, ![j].sent = r.sent,
                                    ![j].answered = r.answered,
                                    ![j].retried = (r.sent > 1 \/ ~r.ok),
                                    ![j].last = (r.ok /\ r.answered = MaxTries)]
                      /\ outqueue' = Append(outqueue, j)
    /\ UNCHANGED <<metricVars, worker_results, pool, logged, loopVars, ret>>

-----------------------------------------------------------------------------
(* The calling thread: evaluation_loop / evaluation_loop_dns *)

NMetrics == Len(name)

\* an exception leaves the with-block: Pool.__exit__ terminates the pool
Raise(exc) ==
    /\ pc' = "raised"
    /\ raised' = exc
    /\ pool' = [pool EXCEPT !.state = "TERMINATE"]

\* for ... in log_progress(zip(noisy_files, clean_files), ...)
NextFileSkipsOne ==
    /\ pc = "for_files"
    /\ IF fi < cfg.n_files
       THEN /\ fi' = Min(fi + 2, cfg.n_files)
            /\ pc' = IF NMetrics = 0 THEN "save_cb" ELSE "add_enh"
       ELSE /\ fi' = fi
            /\ pc' = IF NMetrics = 0 THEN "csv_enh" ELSE "mean_pop"
    /\ mi' = 1
    /\ UNCHANGED <<metricVars, poolVars, cfg, h, out_dict, raised, ret>>

NextFile ==
    /\ pc = "for_files"
    /\ IF fi < cfg.n_files
       THEN /\ fi' = fi + 1
            /\ pc' = IF NMetrics = 0 THEN "save_cb" ELSE "add_enh"
       ELSE /\ fi' = fi
            /\ pc' = IF NMetrics = 0 THEN "csv_enh" ELSE "mean_pop"
    /\ mi' = 1
    /\ UNCHANGED <<metricVars, poolVars, cfg, h, out_dict, raised, ret>>

\* the arguments add hands to apply_async: MPMetric.add a tuple of two
\* signals, NoisyMetric.add the squeezed signal itself
AddArgs(shape) ==
    IF cfg.loop = "corpus" THEN TupleArgs(2) ELSE TensorArgs(Squeeze0(shape))

\* the signal evaluation_loop_dns hands to add is 1-D; a direct caller of
\* NoisyMetric.add may hand a batched one
Shapes == {<<0>>, <<1>>, <<2>>, <<1, 1, 2>>}

\* add, first half: h = self.pool.apply_async(compute_metric, ..enhanced..)
AddSubmitEnh ==
    /\ pc = "add_enh"
    /\ IF pool.state # "RUN"
       THEN /\ Raise("ValueError")
            /\ UNCHANGED <<jobs, h, cfg>>
       ELSE /\ \E shape \in (IF cfg.loop = "corpus" THEN {<<2>>} ELSE Shapes) :
                 /\ jobs' = Append(jobs, NewJob(mi, fi, "enh", AddArgs(shape)))
                 /\ cfg' = [cfg EXCEPT !.shape = shape]
            /\ h' = Len(jobs) + 1
            /\ pc' = "get_enh"
            /\ UNCHANGED <<pool, raised>>
    /\ UNCHANGED <<metricVars, worker_results, outqueue, logged, fi, mi, out_dict, ret>>

\* h.get(): blocks for the enhanced result, re-raises the worker's exception
AddGetEnh ==
    /\ pc = "get_enh"
    /\ Ready(h)
    /\ IF GetRaises(h)
       THEN Raise(jobs[h].exc)
       ELSE /\ pc' = "add_noisy"
            /\ UNCHANGED <<pool, raised>>
    /\ UNCHANGED <<metricVars, worker_results, jobs, outqueue, logged, cfg, fi, mi, h,
                   out_dict, ret>>

\* add, second half (noisy is not None): submit the baseline, queue its handle
AddSubmitNoisy ==
    /\ pc = "add_noisy"
    /\ IF pool.state # "RUN"
       THEN /\ Raise("ValueError")
            /\ UNCHANGED <<jobs, worker_results, mi>>
       ELSE /\ jobs' = Append(jobs, NewJob(mi, fi, "noisy", AddArgs(cfg.shape)))
            /\ worker_results' = [worker_results EXCEPT ![mi] = Append(@, Len(jobs) + 1)]
            /\ IF mi < NMetrics
               THEN mi' = mi + 1 /\ pc' = "add_enh"
               ELSE mi' = mi /\ pc' = "save_cb"
            /\ UNCHANGED <<pool, raised>>
    /\ UNCHANGED <<metricVars, outqueue, logged, cfg, fi, h, out_dict, ret>>

\* if save_audio_callback is not None: save_audio_callback(cleanfn, enh)
SaveAudio ==
    /\ pc = "save_cb"
    /\ pc' = "for_files"
    /\ UNCHANGED <<metricVars, poolVars, cfg, fi, mi, h, out_dict, raised, ret>>

\* MPMetric.mean: while len(self.worker_results) > 0: h = popleft()
DrainMoreOffByOne(m) == Len(worker_results[m]) > 1
DrainMore(m) == Len(worker_results[m]) > 0

MeanPop ==
    /\ pc = "mean_pop"
    /\ IF DrainMore(mi)
       THEN /\ h' = Head(worker_results[mi])
            /\ worker_results' = [worker_results EXCEPT ![mi] = Tail(@)]
            /\ pc' = "mean_get"
       ELSE /\ pc' = "mean_close"
            /\ UNCHANGED <<h, worker_results>>
    /\ UNCHANGED <<metricVars, pool, jobs, outqueue, logged, cfg, fi, mi, out_dict,
                   raised, ret>>

\* MPMetric.mean: h.get()
MeanGet ==
    /\ pc = "mean_get"
    /\ Ready(h)
    /\ IF GetRaises(h)
       THEN Raise(jobs[h].exc)
       ELSE /\ pc' = "mean_pop"
            /\ UNCHANGED <<pool, raised>>
    /\ UNCHANGED <<metricVars, worker_results, jobs, outqueue, logged, cfg, fi, mi, h,
                   out_dict, ret>>

\* Pool.close(): RUN -> CLOSE, nothing when already closed
PoolCloseKeepsRunning(p) == [p EXCEPT !.closes = @ + 1]
PoolClose(p) ==
    [p EXCEPT !.state = IF @ = "RUN" THEN "CLOSE" ELSE @, !.closes = @ + 1]

\* MPMetric.mean: self.pool.close()
MeanClose ==
    /\ pc = "mean_close"
    /\ pool' = PoolClose(pool)
    /\ pc' = "mean_join"
    /\ UNCHANGED <<metricVars, worker_results, jobs, outqueue, logged, cfg, fi, mi, h,
                   out_dict, raised, ret>>

\* Pool.join(): returns once the handler threads and the workers have ended,
\* which they do when no job is outstanding
JoinDone == Outstanding = {}

MeanJoin ==
    /\ pc = "mean_join"
    /\ IF pool.state = "RUN"
       THEN Raise("ValueError")
       ELSE /\ JoinDone
            /\ pool' = [pool EXCEPT !.joins = @ + 1]
            /\ pc' = "mean_super"
            /\ UNCHANGED raised
    /\ UNCHANGED <<metricVars, worker_results, jobs, outqueue, logged, cfg, fi, mi, h,
                   out_dict, ret>>

\* for k, v in m.mean().items(): out_dict[k] = v
RECURSIVE MergeKeepsFirst(_, _)
MergeKeepsFirst(out, items) ==
    IF items = <<>> THEN out
    ELSE MergeKeepsFirst(IF HasKey(out, Head(items).k) THEN out
                         ELSE DictSet(out, Head(items).k, Head(items).v), Tail(items))

RECURSIVE Merge(_, _)
Merge(out, items) ==
    IF items = <<>> THEN out
    ELSE Merge(DictSet(out, Head(items).k, Head(items).v), Tail(items))

\* return super().mean(), merged by the loop
MeanSuper ==
    /\ pc = "mean_super"
    /\ out_dict' = Merge(out_dict, MetricMean(enh_values[mi], noisy_values[mi]))
    /\ ret' = [op |-> "mean", m |-> mi, exc |-> NoExc,
               val |-> MetricMean(enh_values[mi], noisy_values[mi]), arg |-> <<>>]
    /\ IF mi < NMetrics
       THEN mi' = mi + 1 /\ pc' = "mean_pop"
       ELSE mi' = mi /\ pc' = IF cfg.loop = "corpus" THEN "csv_enh" ELSE "return"
    /\ UNCHANGED <<metricVars, poolVars, cfg, fi, h, raised>>

\* for m in metrics: for fn, values in m.flattend(noisy).items(): ...
\* the first flattend that raises ends the loop
RECURSIVE FlattenAll(_, _)
FlattenAll(m, want_noisy) ==
    IF m > NMetrics THEN NoExc
    ELSE LET r == Flattend(enh_values[m], noisy_values[m], want_noisy)
         IN  IF r.exc # NoExc THEN r.exc ELSE FlattenAll(m + 1, want_noisy)

\* write_csv: iter(flattend.values()).__next__() on the merged mapping, which
\* is empty whenever no flattend raised
WriteCsv(want_noisy) ==
    LET exc == FlattenAll(1, want_noisy)
    IN  IF exc # NoExc THEN exc ELSE "StopIteration"

\* if csv_path_enh is not None: ... write_csv(csv_path_enh, enh)
CsvEnh ==
    /\ pc = "csv_enh"
    /\ \/ /\ pc' = "csv_noisy"
          /\ UNCHANGED <<pool, raised>>
       \/ Raise(WriteCsv(FALSE))
    /\ UNCHANGED <<metricVars, worker_results, jobs, outqueue, logged, cfg, fi, mi, h,
                   out_dict, ret>>

\* if csv_path_noisy is not None: ... write_csv(csv_path_noisy, noisy)
CsvNoisy ==
    /\ pc = "csv_noisy"
    /\ \/ /\ pc' = "return"
          /\ UNCHANGED <<pool, raised>>
       \/ Raise(WriteCsv(TRUE))
    /\ UNCHANGED <<metricVars, worker_results, jobs, outqueue, logged, cfg, fi, mi, h,
                   out_dict, ret>>

\* return out_dict: the with-block ends, Pool.__exit__ terminates the pool
Return ==
    /\ pc = "return"
    /\ pc' = "returned"
    /\ pool' = [pool EXCEPT !.state = "TERMINATE"]
    /\ UNCHANGED <<metricVars, worker_results, jobs, outqueue, logged, cfg, fi, mi, h,
                   out_dict, raised, ret>>

NoRet == [op |-> "none", m |-> 0, exc |-> NoExc, val |-> <<>>, arg |-> <<>>]

\* the state after pool_fn(processes=max(1, n_workers)) and the construction
\* of the selected metrics
InitLoop(loop, keys) ==
    /\ \E sel \in SeqsUpTo(keys, MaxMetrics) :
          name = [i \in 1..Len(sel) |-> MetricName(sel[i])]
    /\ enh_values = [i \in 1..Len(name) |-> InitValues(name[i])]
    /\ noisy_values = [i \in 1..Len(name) |-> InitValues(name[i])]
    /\ worker_results = [i \in 1..Len(name) |-> <<>>]
    /\ \E nf \in 0..MaxFiles, nw \in {0, MaxWorkers} :
          /\ nf * Len(name) <= MaxPairs
          /\ \E be \in Values, bn \in Values :
                cfg = [loop |-> loop, n_files |-> nf, n_workers |-> nw, shape |-> <<>>,
                       base |-> [enh |-> be, noisy |-> bn]]
          /\ pool = [state |-> "RUN", processes |-> Max(1, nw), closes |-> 0, joins |-> 0]
    /\ jobs = <<>>
    /\ outqueue = <<>>
    /\ logged = {}
    /\ pc = "for_files"
    /\ fi = 0
    /\ mi = 1
    /\ h = 0
    /\ out_dict = <<>>
    /\ raised = NoExc
    /\ ret = NoRet

Init == InitLoop("corpus", CorpusKeys)

MainThread ==
    \/ NextFile \/ AddSubmitEnh \/ AddGetEnh \/ AddSubmitNoisy \/ SaveAudio
    \/ MeanPop \/ MeanGet \/ MeanClose \/ MeanJoin \/ MeanSuper
    \/ CsvEnh \/ CsvNoisy \/ Return

Next ==
    \/ MainThread
    \/ WorkerCompute \/ HandleResult

Spec == Init /\ [][Next]_vars

\* the workers and the result handler are threads or processes of their own,
\* each of which runs when it has something to do
SpecLive ==
    /\ Spec
    /\ WF_vars(WorkerCompute)
    /\ WF_vars(HandleResult)

-----------------------------------------------------------------------------
(* evaluation_loop_dns over remote metrics *)

InitRemote == InitLoop("dns", RemoteKeys)

NextRemote ==
    \/ NextFile \/ AddSubmitEnh \/ AddGetEnh \/ AddSubmitNoisy \/ SaveAudio
    \/ MeanPop \/ MeanGet \/ MeanClose \/ MeanJoin \/ MeanSuper \/ Return
    \/ WorkerInvoke \/ HandleResult

SpecRemote == InitRemote /\ [][NextRemote]_vars

-----------------------------------------------------------------------------
(* A Metric driven through the base class: Metric.add, mean, flattend *)

\* the declarations and formula results the harness draws from
LocalNames == {StrName("A"), ListName(<<"A">>), ListName(<<"A", "B">>)}
Shape(kind, n) == [kind |-> kind, n |-> n]
Raises == Shape("raise", 0)
NoSignal == Shape("None", 0)
LocalShapes == {Shape("float", 1), Raises} \cup {Shape("array", n) : n \in 0..MaxVec}
LocalValue(shape, v) ==
    IF shape.kind = "float" THEN Float(v)
    ELSE Array([i \in 1..shape.n |-> v + 1000 * (i - 1)])

\* Metric.add: compute_metric and _add_values_enh, then the same for noisy
\* unless it is None; an exception of the formula leaves add at once
LocalAdd ==
    /\ pc = "client"
    /\ fi < MaxAdds
    /\ \E fn \in {None, FileName(fi + 1)},
          se \in LocalShapes, sn \in LocalShapes \cup {NoSignal} :
         LET ve == LocalValue(se, Score(cfg.base.enh, 1, fi + 1))
             vn == LocalValue(sn, Score(cfg.base.noisy, 1, fi + 1))
             arg == [fn |-> fn, enh |-> se, noisy |-> sn]
         IN  IF se = Raises
             THEN /\ ret' = [op |-> "add", m |-> 1, exc |-> "FormulaError", val |-> <<>>,
                             arg |-> arg]
                  /\ UNCHANGED <<enh_values, noisy_values>>
             ELSE /\ enh_values' = [enh_values EXCEPT ![1] = AddValues(@, ve, fn)]
                  /\ IF sn = NoSignal
                     THEN /\ ret' = [op |-> "add", m |-> 1, exc |-> NoExc, val |-> <<>>,
                                     arg |-> arg]
                          /\ UNCHANGED noisy_values
                     ELSE IF sn = Raises
                     THEN /\ ret' = [op |-> "add", m |-> 1, exc |-> "FormulaError",
                                     val |-> <<>>, arg |-> arg]
                          /\ UNCHANGED noisy_values
                     ELSE /\ noisy_values' = [noisy_values EXCEPT ![1] = AddValues(@, vn, fn)]
                          /\ ret' = [op |-> "add", m |-> 1, exc |-> NoExc, val |-> <<>>,
                                     arg |-> arg]
    /\ fi' = fi + 1
    /\ UNCHANGED <<name, poolVars, cfg, pc, mi, h, out_dict, raised>>

\* Metric.mean
LocalMean ==
    /\ pc = "client"
    /\ ret' = [op |-> "mean", m |-> 1, exc |-> NoExc,
               val |-> MetricMean(enh_values[1], noisy_values[1]), arg |-> <<>>]
    /\ UNCHANGED <<metricVars, poolVars, loopVars>>

\* Metric.flattend(noisy)
LocalFlattend ==
    /\ pc = "client"
    /\ \E want_noisy \in BOOLEAN :
         LET r == Flattend(enh_values[1], noisy_values[1], want_noisy)
         IN  ret' = [op |-> "flattend", m |-> 1, exc |-> r.exc, val |-> r.d,
                     arg |-> want_noisy]
    /\ UNCHANGED <<metricVars, poolVars, loopVars>>

InitLocal ==
    /\ \E nm \in LocalNames : name = <<nm>>
    /\ enh_values = <<InitValues(name[1])>>
    /\ noisy_values = <<InitValues(name[1])>>
    /\ worker_results = <<<<>>>>
    /\ \E be \in Values, bn \in Values :
          cfg = [loop |-> "local", n_files |-> 0, n_workers |-> 0, shape |-> <<>>,
                 base |-> [enh |-> be, noisy |-> bn]]
    /\ pool = [state |-> "RUN", processes |-> 1, closes |-> 0, joins |-> 0]
    /\ jobs = <<>>
    /\ outqueue = <<>>
    /\ logged = {}
    /\ pc = "client"
    /\ fi = 0
    /\ mi = 1
    /\ h = 0
    /\ out_dict = <<>>
    /\ raised = NoExc
    /\ ret = NoRet

NextLocal == LocalAdd \/ LocalMean \/ LocalFlattend

SpecLocal == InitLocal /\ [][NextLocal]_vars

-----------------------------------------------------------------------------
(* A pooled metric crossing the process boundary: __getstate__, pickle,    *)
(* __setstate__.  enh_values and noisy_values are indexed by the identity  *)
(* of the dict object: 1 is the parent's, the others live in workers.      *)

MaxTasks == 2

\* the keys of self.__dict__ of a registry metric
Dict(key) ==
    {"name", "sr", "resampler", "enh_values", "noisy_values", "pool", "worker_results"}
        \cup (IF key = "pesq" THEN {"mode"} ELSE {"use_octave"})

\* __getstate__: a copy of the dict without pool and worker_results
GetStateKeepsQueue(d) == d \ {"pool"}
GetState(d) == d \ {"pool", "worker_results"}

\* __setstate__: self.__dict__.update(state) on the fresh object
SetState(d, state) == d \cup state

\* pickling a state and loading it in the worker: the object behind a
\* reference is rebuilt as a fresh object
PickledShares(ref, fresh) == ref
Pickled(ref, fresh) == fresh

\* what the worker-side copy would record
WorkerFile == "worker.wav"

\* MPMetric.add as the parent sees it once the enhanced result is in: the
\* callback has appended the record and the baseline handle is queued
PickleAdd ==
    /\ pc = "pickle"
    /\ fi < MaxAdds
    /\ enh_values' = [enh_values EXCEPT ![1] =
            AddValues(@, FormulaValue(name[1], Score(cfg.base.enh, 1, fi + 1)),
                      FileName(fi + 1))]
    /\ worker_results' = [worker_results EXCEPT ![1] = Append(@, fi + 1)]
    /\ fi' = fi + 1
    /\ UNCHANGED <<name, noisy_values, pool, jobs, outqueue, logged, cfg, pc, mi, h,
                   out_dict, raised, ret>>

\* the bound method self.compute_metric is pickled for a task: __getstate__
\* hands out the remaining keys, the values being the parent's own objects
GetStateStep ==
    /\ pc = "pickle"
    /\ Len(jobs) < MaxTasks
    /\ jobs' = Append(jobs, [st |-> "state", keys |-> GetState(Dict(cfg.key)),
                             fields |-> {}, enh |-> 1, noisy |-> 1, appended |-> 0])
    /\ UNCHANGED <<metricVars, worker_results, pool, outqueue, logged, loopVars, ret>>

\* the worker unpickles the task: fresh copies of the dicts, __setstate__
PickleLoads ==
    /\ pc = "pickle"
    /\ \E j \in 1..Len(jobs) :
        /\ jobs[j].st = "state"
        /\ enh_values' = Append(enh_values, enh_values[jobs[j].enh])
        /\ noisy_values' = Append(noisy_values, noisy_values[jobs[j].noisy])
        /\ jobs' = [jobs EXCEPT ![j].st = "loaded",
                                ![j].fields = SetState({}, jobs[j].keys),
                                ![j].enh = Pickled(@, Len(enh_values) + 1),
                                ![j].noisy = Pickled(@, Len(noisy_values) + 1)]
    /\ UNCHANGED <<name, worker_results, pool, outqueue, logged, loopVars, ret>>

\* the worker-side copy records a result: _add_values_enh / _add_values_noisy
\* on its own dicts
WorkerAppend ==
    /\ pc = "pickle"
    /\ \E j \in 1..Len(jobs) :
        /\ jobs[j].st = "loaded"
        /\ jobs[j].appended = 0
        /\ enh_values' = [enh_values EXCEPT ![jobs[j].enh] =
                AddValues(@, FormulaValue(name[1], Score(cfg.base.enh, 1, j)), WorkerFile)]
        /\ noisy_values' = [noisy_values EXCEPT ![jobs[j].noisy] =
                AddValues(@, FormulaValue(name[1], Score(cfg.base.noisy, 1, j)), WorkerFile)]
        /\ jobs' = [jobs EXCEPT ![j].appended = 1]
    /\ UNCHANGED <<name, worker_results, pool, outqueue, logged, loopVars, ret>>

InitPickle ==
    /\ \E key \in CorpusKeys, be \in Values, bn \in Values :
          /\ name = <<MetricName(key)>>
          /\ cfg = [loop |-> "pickle", key |-> key, n_files |-> 0, n_workers |-> 1,
                    shape |-> <<>>, base |-> [enh |-> be, noisy |-> bn]]
    /\ enh_values = <<InitValues(name[1])>>
    /\ noisy_values = <<InitValues(name[1])>>
    /\ worker_results = <<<<>>>>
    /\ pool = [state |-> "RUN", processes |-> 1, closes |-> 0, joins |-> 0]
    /\ jobs = <<>>
    /\ outqueue = <<>>
    /\ logged = {}
    /\ pc = "pickle"
    /\ fi = 0
    /\ mi = 1
    /\ h = 0
    /\ out_dict = <<>>
    /\ raised = NoExc
    /\ ret = NoRet

NextPickle == PickleAdd \/ GetStateStep \/ PickleLoads \/ WorkerAppend

SpecPickle == InitPickle /\ [][NextPickle]_vars

-----------------------------------------------------------------------------
(* log_progress: the generator the loops iterate the file list through.    *)
(* ret.val holds the items the consumer has received, logged the progress  *)
(* values a log line was emitted for, fi the value of k + 1.               *)

MaxItems == 3

\* the values of log_freq_percent the model draws from
Cadences == {-1, 0, 1, 25, 50, 99, 100, 101}

\* disable_logging = log_freq_percent < 0 or log_freq_percent >= 100
DisableLogging(freq) == freq < 0 \/ freq >= 100

\* progress = int(100 * (k + 1) / L), which for the lengths of the model is
\* the integer quotient
Progress(k1, L) == (100 * k1) \div L

Yielded(items) == [op |-> "log_progress", m |-> 0, exc |-> NoExc, val |-> items, arg |-> <<>>]

\* for k, i in enumerate(iterable): yield i
ProgressYield ==
    /\ pc = "for_items"
    /\ fi < cfg.n_files
    /\ fi' = fi + 1
    /\ ret' = Yielded(Append(ret.val, fi + 1))
    /\ pc' = "yielded"
    /\ UNCHANGED <<metricVars, poolVars, cfg, mi, h, out_dict, raised>>

\* the consumer asks for the next item: the body after the yield runs
ProgressResume ==
    /\ pc = "yielded"
    /\ IF DisableLogging(cfg.freq)
       THEN /\ pc' = "for_items"
            /\ UNCHANGED <<logged, raised>>
       ELSE IF cfg.freq = 0
       THEN \* progress % log_freq_percent
            /\ pc' = "raised"
            /\ raised' = "ZeroDivisionError"
            /\ UNCHANGED logged
       ELSE /\ pc' = "for_items"
            /\ logged' = IF Progress(fi, cfg.L) % cfg.freq = 0 /\ Progress(fi, cfg.L) > 0
                          THEN logged \cup {Progress(fi, cfg.L)}
                          ELSE logged
            /\ UNCHANGED raised
    /\ UNCHANGED <<metricVars, worker_results, pool, jobs, outqueue, cfg, fi, mi, h,
                   out_dict, ret>>

\* the iterable is exhausted: the generator returns
ProgressEnd ==
    /\ pc = "for_items"
    /\ fi = cfg.n_files
    /\ pc' = "done"
    /\ UNCHANGED <<metricVars, poolVars, cfg, fi, mi, h, out_dict, raised, ret>>

\* L is len(iterable), or total when the iterable has no length: the loops
\* pass len(noisy_files), of which the zip with clean_files may fall short
InitProgress ==
    /\ \E n \in 0..MaxItems, more \in {0, 1}, freq \in Cadences :
          cfg = [loop |-> "progress", n_files |-> n, L |-> n + more, freq |-> freq,
                 n_workers |-> 0, shape |-> <<>>, base |-> [enh |-> 1, noisy |-> 1]]
    /\ name = <<>>
    /\ enh_values = <<>>
    /\ noisy_values = <<>>
    /\ worker_results = <<>>
    /\ pool = [state |-> "RUN", processes |-> 1, closes |-> 0, joins |-> 0]
    /\ jobs = <<>>
    /\ outqueue = <<>>
    /\ logged = {}
    /\ pc = "for_items"
    /\ fi = 0
    /\ mi = 1
    /\ h = 0
    /\ out_dict = <<>>
    /\ raised = NoExc
    /\ ret = Yielded(<<>>)

NextProgress == ProgressYield \/ ProgressResume \/ ProgressEnd

SpecProgress == InitProgress /\ [][NextProgress]_vars

-----------------------------------------------------------------------------
(* Two metrics fed the same signals: metric 1 declares the str name and    *)
(* its formula returns the float, metric 2 declares the one-element list   *)
(* and its formula returns the one-element array holding that float.       *)

\* what the formula of metric m returns for the score v
PairValue(m, v) == IF m = 1 THEN Float(v) ELSE Array(<<v>>)

\* Metric.add on both metrics with the same clean, enhanced, noisy and fn
PairAdd ==
    /\ pc = "pair"
    /\ fi < MaxAdds
    /\ \E fn \in {None, FileName(fi + 1)}, ve \in Values, vn \in Values \cup {0} :
          /\ enh_values' = [m \in 1..2 |-> AddValues(enh_values[m], PairValue(m, ve), fn)]
          /\ noisy_values' =
                IF vn = 0 \* noisy is None
                THEN noisy_values
                ELSE [m \in 1..2 |-> AddValues(noisy_values[m], PairValue(m, vn), fn)]
          /\ ret' = [op |-> "add", m |-> 0, exc |-> NoExc, val |-> <<>>,
                     arg |-> [fn |-> fn, enh |-> ve, noisy |-> vn]]
    /\ fi' = fi + 1
    /\ UNCHANGED <<name, poolVars, cfg, pc, mi, h, out_dict, raised>>

\* Metric.mean and Metric.flattend on metric mi, the other one next
PairRead ==
    /\ pc = "pair"
    /\ \E want_noisy \in BOOLEAN :
         LET r == Flattend(enh_values[mi], noisy_values[mi], want_noisy)
         IN  ret' = [op |-> "read", m |-> mi, exc |-> r.exc,
                     val |-> MetricMean(enh_values[mi], noisy_values[mi]), arg |-> want_noisy]
    /\ mi' = 3 - mi
    /\ UNCHANGED <<metricVars, poolVars, cfg, pc, fi, h, out_dict, raised>>

InitPair ==
    /\ name = <<StrName("A"), ListName(<<"A">>)>>
    /\ enh_values = [m \in 1..2 |-> InitValues(name[m])]
    /\ noisy_values = [m \in 1..2 |-> InitValues(name[m])]
    /\ worker_results = <<<<>>, <<>>>>
    /\ cfg = [loop |-> "pair", n_files |-> 0, n_workers |-> 0, shape |-> <<>>,
              base |-> [enh |-> 1, noisy |-> 1]]
    /\ pool = [state |-> "RUN", processes |-> 1, closes |-> 0, joins |-> 0]
    /\ jobs = <<>>
    /\ outqueue = <<>>
    /\ logged = {}
    /\ pc = "pair"
    /\ fi = 0
    /\ mi = 1
    /\ h = 0
    /\ out_dict = <<>>
    /\ raised = NoExc
    /\ ret = NoRet

NextPair == PairAdd \/ PairRead

SpecPair == InitPair /\ [][NextPair]_vars

-----------------------------------------------------------------------------
(* Properties *)

FnsOf(l) == [r \in 1..Len(l) |-> l[r][1]]
RecordedUnderAll(d, fn) ==
    \A i \in 1..Len(d) : \E r \in 1..Len(d[i].v) : d[i].v[r][1] = fn
RecordedUnderNone(d, fn) ==
    \A i \in 1..Len(d) : \A r \in 1..Len(d[i].v) : d[i].v[r][1] # fn
Exhausted(j) == jobs[j].st \in {"computed", "ready"} /\ ~jobs[j].ok /\ jobs[j].retried

\* C1: when mean() of a pooled metric computes its averages, its queue of
\* pending handles is empty and every computation its add calls submitted has
\* completed, the baseline ones with their record appended by the callback.
C1_MeanAfterAllCompleted ==
    pc = "mean_super" =>
        /\ worker_results[mi] = <<>>
        /\ \A j \in JobsOf(mi) :
              /\ jobs[j].st = "ready"
              /\ jobs[j].kind = "noisy" =>
                    /\ jobs[j].ok
                    /\ RecordedUnderAll(noisy_values[mi], FileName(jobs[j].f))

\* C1 witness: averages are about to be computed over baseline records that
\* two workers completed against the order of submission.
C1_Witness ==
    /\ pc = "mean_super"
    /\ cfg.n_workers = MaxWorkers
    /\ FnsOf(noisy_values[mi][1].v) = <<FileName(2), FileName(1)>>

\* C2 (as claimed): a computation that raised in a worker is logged, leaves no
\* record, and neither add nor mean() raises: the loop never ends with the
\* worker's exception.
C2_FailureDoesNotAbort ==
    \A j \in Failed :
        jobs[j].st = "ready" =>
            /\ j \in logged
            /\ RecordedUnderNone(IF jobs[j].kind = "enh" THEN enh_values[jobs[j].m]
                                 ELSE noisy_values[jobs[j].m], FileName(jobs[j].f))
            /\ raised # jobs[j].exc

\* C3: when the requests for a file's enhanced signal raised on all 20
\* attempts, add never returns normally: no enhanced record of the file
\* exists and the calling thread is still in h.get() of that add or has
\* ended with the call's exception.
C3_ExhaustedAddRaises ==
    \A j \in 1..Len(jobs) :
        (Exhausted(j) /\ jobs[j].kind = "enh") =>
            /\ RecordedUnderNone(enh_values[jobs[j].m], FileName(jobs[j].f))
            /\ h = j
            /\ pc \in {"get_enh", "raised"}
            /\ pc = "raised" => raised = jobs[j].exc

\* C3 witness: add has raised after all 20 requests of the enhanced signal
\* raised.
C3_Witness ==
    /\ pc = "raised"
    /\ h \in 1..Len(jobs)
    /\ Exhausted(h)
    /\ jobs[h].kind = "enh"
    /\ jobs[h].st = "ready"

\* C4: a call of mos_api_req issues at most 20 requests, one more than the
\* requests that raised when it is answered and exactly those that raised
\* otherwise, and returns the response of the request it issued last; a call
\* of add answered on the 20th request has its record appended under every
\* name once the result is handled.
C4_BoundedRetry ==
    \A j \in 1..Len(jobs) :
        /\ (jobs[j].st = "computed" /\ jobs[j].nargs = Arity(cfg.loop)) =>
              /\ jobs[j].sent <= MaxTries
              /\ jobs[j].ok => (jobs[j].sent = jobs[j].tries + 1
                                /\ jobs[j].answered = jobs[j].sent)
              /\ ~jobs[j].ok => (jobs[j].sent = jobs[j].tries
                                 /\ jobs[j].tries = MaxTries)
        /\ (jobs[j].st = "ready" /\ jobs[j].last /\ jobs[j].kind = "enh") =>
              RecordedUnderAll(enh_values[jobs[j].m], FileName(jobs[j].f))

\* C4 witness: add has gone on after a call that 19 requests failed and the
\* 20th answered.
C4_Witness ==
    /\ pc = "add_noisy"
    /\ jobs[h].last
    /\ jobs[h].kind = "enh"
    /\ RecordedUnderAll(enh_values[mi], FileName(fi))

\* C5 (as claimed): a call whose 20 attempts all raised ends with an error
\* that carries the exception of the 20th attempt.
C5_CarriesLastError ==
    \A j \in 1..Len(jobs) :
        (jobs[j].st = "computed" /\ Exhausted(j)) =>
            /\ jobs[j].exc = "ValueError"
            /\ jobs[j].carried = MaxTries

\* the add calls of metric m whose enhanced half has completed
EnhDone(m) ==
    IF pc \in {"add_enh", "get_enh", "add_noisy"}
    THEN IF m < mi \/ (m = mi /\ pc = "add_noisy") THEN fi ELSE fi - 1
    ELSE fi

\* C6: the enhanced records under every name are those of the files whose add
\* has got its enhanced result, in the order of the add calls: add returns
\* only after the record is appended.
C6_EnhancedInFileOrder ==
    \A m \in 1..NMetrics : \A i \in 1..Len(enh_values[m]) :
        /\ \A r \in 1..Len(enh_values[m][i].v) : enh_values[m][i].v[r][1] = FileName(r)
        /\ pc # "raised" =>
              \/ Len(enh_values[m][i].v) = EnhDone(m)
              \/ /\ pc = "get_enh" /\ m = mi
                 /\ Len(enh_values[m][i].v) = EnhDone(m) + 1

\* C6 witness: both files' add calls have returned, their enhanced records
\* are in place, and a baseline computation is still outstanding.
C6_Witness ==
    /\ pc = "save_cb"
    /\ fi = 2
    /\ NMetrics >= 1
    /\ Len(enh_values[1][1].v) = 2
    /\ \E j \in Outstanding : jobs[j].kind = "noisy"

\* the sum of the scores the formula of metric m gives position i of its
\* result over the files 1..n
RECURSIVE ScoreSum(_, _, _, _)
ScoreSum(base, m, i, n) ==
    IF n = 0 THEN 0
    ELSE Score(base, m, n) + 1000 * (i - 1) + ScoreSum(base, m, i, n - 1)

\* C7: when no computation failed, mean() of a pooled metric finds exactly N
\* enhanced records under every declared name, and the Enhanced mean it
\* reports is the sum of the N scores over N.
C7_EnhancedMeanOverAllFiles ==
    /\ (pc = "mean_super" /\ Failed = {}) =>
          \A i \in 1..Len(enh_values[mi]) : Len(enh_values[mi][i].v) = cfg.n_files
    /\ (ret.op = "mean" /\ Failed = {}) =>
          \A i \in 1..Len(name[ret.m].list) :
              /\ HasKey(ret.val, Label("Enhanced", name[ret.m].list[i]))
              /\ Get(ret.val, Label("Enhanced", name[ret.m].list[i]))
                     = [sum |-> ScoreSum(cfg.base.enh, ret.m, i, cfg.n_files),
                        cnt |-> cfg.n_files]

\* C7 witness: the second of two metrics has reported its means over the
\* largest corpus with no failure.
C7_Witness ==
    /\ ret.op = "mean"
    /\ ret.m = 2
    /\ cfg.n_files = MaxFiles
    /\ Failed = {}

\* C8 (as claimed): the pool is closed exactly once and joined exactly once in
\* a run, before any metric reports.
C8_ClosedExactlyOnce ==
    /\ pool.closes <= 1
    /\ pool.joins <= 1
    /\ ret.op = "mean" => (pool.closes = 1 /\ pool.joins = 1)

\* C8 (amended): mean() of every pooled metric calls close and join once, so
\* k metrics call them k times; the pool leaves RUN at the first close, no
\* metric reports while the pool is running, and the metric about to report
\* is the mi-th to have closed and joined.
C8_ClosedByEveryMean ==
    /\ pool.state = "RUN" => (pool.closes = 0 /\ pool.joins = 0 /\ ret.op # "mean")
    /\ pool.closes <= NMetrics
    /\ pool.joins <= pool.closes
    /\ pc = "mean_super" => (pool.closes = mi /\ pool.joins = mi /\ pool.state = "CLOSE")
    /\ pc \in {"csv_enh", "csv_noisy", "return", "returned"} =>
          (pool.closes = NMetrics /\ pool.joins = NMetrics)

\* C8 witness: the second metric is about to report after closing and joining
\* the pool the first one had already closed.
C8_Witness ==
    /\ pc = "mean_super"
    /\ mi = 2
    /\ pool.closes = 2
    /\ pool.joins = 2

\* C9 (as claimed): on a metric holding a record, flattend returns normally a
\* mapping whose inner key sets are the declared names.
C9_FlattendReturns ==
    (/\ ret.op = "flattend"
     /\ \E i \in 1..Len(enh_values[1]) : Len(enh_values[1][i].v) > 0) =>
        /\ ret.exc = NoExc
        /\ \A e \in 1..Len(ret.val) : Keys(ret.val[e].v) = name[1].list

\* C10 (as claimed): an add whose formula returns a vector of another length
\* than the declared names raises and appends no record.
C10_MismatchIsFatal ==
    [][(/\ fi' = fi + 1
        /\ ret'.arg.enh.kind = "array"
        /\ ret'.arg.enh.n # Len(name[1].list)) =>
            (/\ ret'.exc # NoExc
             /\ enh_values' = enh_values
             /\ noisy_values' = noisy_values)]_vars

\* the values recorded under position i of the mapping d, summed and counted
MeanOf(d, i) == [sum |-> SumSeq([r \in 1..Len(d[i].v) |-> d[i].v[r][2]]),
                 cnt |-> Len(d[i].v)]

\* C11: mean() returns for every declared name an Enhanced entry holding the
\* mean of its enhanced records, a Noisy entry holding the mean of its
\* baseline records exactly when it has one, and nothing else.
C11_MeanEntries ==
    (ret.op = "mean" /\ cfg.loop = "local") =>
        /\ \A i \in 1..Len(name[1].list) :
              LET n == name[1].list[i]
              IN  /\ HasKey(ret.val, Label("Enhanced", n))
                  /\ Get(ret.val, Label("Enhanced", n)) = MeanOf(enh_values[1], i)
                  /\ HasKey(ret.val, Label("Noisy", n)) <=> Len(noisy_values[1][i].v) > 0
                  /\ Len(noisy_values[1][i].v) > 0 =>
                        Get(ret.val, Label("Noisy", n)) = MeanOf(noisy_values[1], i)
        /\ Len(ret.val) = Len(name[1].list)
              + Cardinality({i \in 1..Len(name[1].list) : Len(noisy_values[1][i].v) > 0})

\* C11 witness: mean() has reported a metric of two names of which one holds
\* two baseline records and the other none.
C11_Witness ==
    /\ ret.op = "mean"
    /\ cfg.loop = "local"
    /\ Len(name[1].list) = 2
    /\ Len(enh_values[1][1].v) = 2
    /\ Len(noisy_values[1][1].v) = 2
    /\ Len(noisy_values[1][2].v) = 0

\* position of a file name in the file list
FileIndex(fn) == CHOOSE i \in 1..Len(FileNames) : FileNames[i] = fn

\* the records of l follow the file list
InFileOrder(l) ==
    \A r1 \in 1..Len(l), r2 \in 1..Len(l) :
        r1 < r2 => FileIndex(l[r1][1]) < FileIndex(l[r2][1])

\* the records of l are those of the files 1..n, in that order
AllFilesInOrder(l, n) == FnsOf(l) = [r \in 1..n |-> FileName(r)]

\* C12: with n_workers <= 0 (the dummy pool of one thread) the enhanced and
\* the baseline records of every name follow the file list at every moment,
\* and once the loop has processed the list without failure they are the
\* records of all files in list order.
C12_SequentialInFileOrder ==
    cfg.n_workers <= 0 =>
        \A m \in 1..NMetrics : \A i \in 1..Len(enh_values[m]) :
            /\ InFileOrder(enh_values[m][i].v)
            /\ InFileOrder(noisy_values[m][i].v)
            /\ (pc \in {"mean_super", "csv_enh", "csv_noisy", "return", "returned"}
                    /\ (pc = "mean_super" => m <= mi)) =>
                  /\ AllFilesInOrder(enh_values[m][i].v, cfg.n_files)
                  /\ AllFilesInOrder(noisy_values[m][i].v, cfg.n_files)

\* C12 witness: the sequential dispatcher has finished two files and the
\* metric about to report holds both baseline records.
C12_Witness ==
    /\ cfg.n_workers = 0
    /\ pc = "mean_super"
    /\ cfg.n_files = 2
    /\ Len(noisy_values[mi][1].v) = 2

\* what mean() of metric m reports, and the metrics among the first k that
\* report the label lab
MeanOfMetric(m) == MetricMean(enh_values[m], noisy_values[m])
Reporting(lab, k) == {m \in 1..k : HasKey(MeanOfMetric(m), lab)}
AllLabels == {Label(kind, n) : kind \in {"Enhanced", "Noisy"},
                               n \in {"PESQ", "CSIG", "CBAK", "COVL", "SSNR"}}

\* C13: once the k-th metric has reported, the result mapping holds exactly
\* the labels reported by the metrics 1..k, each with the value of the last
\* of them that reports it.
C13_MergeLastWins ==
    (ret.op = "mean" /\ cfg.loop = "corpus") =>
        \A lab \in AllLabels :
            /\ HasKey(out_dict, lab) <=> Reporting(lab, ret.m) # {}
            /\ Reporting(lab, ret.m) # {} =>
                  LET last == CHOOSE m \in Reporting(lab, ret.m) :
                                  \A q \in Reporting(lab, ret.m) : q <= m
                  IN  Get(out_dict, lab) = Get(MeanOfMetric(last), lab)

\* C13 witness: composite and pesq were selected in this order and the PESQ
\* label holds the value of pesq, which differs from the one composite gave.
C13_Witness ==
    /\ ret.op = "mean"
    /\ ret.m = 2
    /\ name = <<MetricName("composite"), MetricName("pesq")>>
    /\ cfg.n_files >= 1
    /\ Get(out_dict, Label("Enhanced", "PESQ"))
          = Get(MeanOfMetric(2), Label("Enhanced", "PESQ"))
    /\ Get(out_dict, Label("Enhanced", "PESQ"))
          # Get(MeanOfMetric(1), Label("Enhanced", "PESQ"))
    /\ HasKey(out_dict, Label("Enhanced", "SSNR"))

\* C14: the state handed to a worker holds every key of the metric but pool
\* and worker_results; handing it out and whatever the worker-side copy
\* records leave the parent's pool, queue and records as its own add calls
\* made them.
C14_StateExcludesPool ==
    cfg.loop = "pickle" =>
        /\ \A j \in 1..Len(jobs) :
              /\ "pool" \notin jobs[j].keys
              /\ "worker_results" \notin jobs[j].keys
              /\ \A f \in Dict(cfg.key) : f \notin {"pool", "worker_results"} => f \in jobs[j].keys
              /\ jobs[j].st = "loaded" => jobs[j].fields = jobs[j].keys
        /\ pool = [state |-> "RUN", processes |-> 1, closes |-> 0, joins |-> 0]
        /\ worker_results[1] = [r \in 1..fi |-> r]
        /\ \A i \in 1..Len(enh_values[1]) :
              /\ AllFilesInOrder(enh_values[1][i].v, fi)
              /\ noisy_values[1][i].v = <<>>

\* C14 witness: a worker-side copy made after the parent's first add has
\* recorded a result of its own, and the parent has added since.
C14_Witness ==
    /\ cfg.loop = "pickle"
    /\ fi = 2
    /\ \E j \in 1..Len(jobs) :
          /\ jobs[j].appended = 1
          /\ FnsOf(enh_values[jobs[j].enh][1].v) = <<FileName(1), WorkerFile>>

\* C15: after any sequence of add, mean and flattend calls the keys of the
\* enhanced and of the baseline mapping are the names given at construction,
\* in the declared order.
C15_NamesFixed ==
    cfg.loop = "local" =>
        /\ Keys(enh_values[1]) = name[1].list
        /\ Keys(noisy_values[1]) = name[1].list

\* C15 witness: a metric of two names after two add calls, one of them with a
\* formula result shorter than the names, and a flattend call that raised.
C15_Witness ==
    /\ cfg.loop = "local"
    /\ Len(name[1].list) = 2
    /\ fi = 2
    /\ ret.op = "flattend"
    /\ ret.exc # NoExc
    /\ Len(enh_values[1][1].v) = 2
    /\ Len(enh_values[1][2].v) = 1

\* C16 (as claimed): for every cadence outside the open interval (0, 100)
\* log_progress emits no log line, does not raise, and has yielded every item
\* once and in order when it ends.
C16_OutsideDisables ==
    (cfg.loop = "progress" /\ ~(cfg.freq > 0 /\ cfg.freq < 100)) =>
        /\ logged = {}
        /\ raised = NoExc
        /\ pc = "done" => ret.val = [i \in 1..cfg.n_files |-> i]

\* C17: after any sequence of add calls the metric declaring one str name
\* with a float formula holds the same enhanced and baseline records as the
\* metric declaring the one-element list with the one-element vector formula.
C17_ScalarAsOneVector ==
    cfg.loop = "pair" =>
        /\ enh_values[1] = enh_values[2]
        /\ noisy_values[1] = noisy_values[2]
        /\ Keys(enh_values[1]) = <<"A">>
        /\ Len(enh_values[1][1].v) = fi

\* C17 witness: two add calls, one of them without a baseline signal, have
\* left both metrics with two enhanced records and one baseline record.
C17_Witness ==
    /\ cfg.loop = "pair"
    /\ Len(enh_values[1][1].v) = 2
    /\ Len(enh_values[2][1].v) = 2
    /\ Len(noisy_values[1][1].v) = 1
    /\ Len(noisy_values[2][1].v) = 1

\* the positions of the calling thread after the file loop
AfterFiles == {"mean_pop", "mean_get", "mean_close", "mean_join", "mean_super",
               "csv_enh", "csv_noisy", "return", "returned"}

\* the submissions add has made when the calling thread is at pc with file fi
\* and metric mi, every add submitting the enhanced and the baseline signal
Submitted ==
    CASE pc \in {"for_files", "save_cb"} -> 2 * NMetrics * fi
      [] pc = "add_enh" -> 2 * NMetrics * (fi - 1) + 2 * (mi - 1)
      [] pc \in {"get_enh", "add_noisy"} -> 2 * NMetrics * (fi - 1) + 2 * (mi - 1) + 1
      [] OTHER -> 2 * NMetrics * cfg.n_files

\* the j-th submission of a run belongs to this file and metric
FileOf(j) == ((j - 1) \div (2 * NMetrics)) + 1
MetricOf(j) == (((j - 1) % (2 * NMetrics)) \div 2) + 1

InSequence ==
    /\ \A j \in 1..Len(jobs) :
          /\ jobs[j].f = FileOf(j)
          /\ jobs[j].m = MetricOf(j)
          /\ jobs[j].kind = IF j % 2 = 1 THEN "enh" ELSE "noisy"
    /\ pc # "raised" => Len(jobs) = Submitted
    /\ pc \in AfterFiles => fi = cfg.n_files

\* C18: the loop takes the files one after another in list order: the add
\* calls of a file are made metric by metric in selection order with that
\* file, the callback step follows the last of them and is left only for the
\* next file, and mean() starts only when the list is exhausted.
C18_FilesOneAfterAnother ==
    [][/\ InSequence
       /\ InSequence'
       /\ fi' # fi => (pc = "for_files" /\ fi' = fi + 1)
       /\ (pc' = "for_files" /\ pc # "for_files") => pc = "save_cb"
       /\ (pc = "save_cb" /\ pc' # "save_cb") => (pc' = "for_files" /\ fi' = fi)
       /\ (pc' = "save_cb" /\ pc # "save_cb") =>
              (IF NMetrics = 0 THEN pc = "for_files"
               ELSE pc = "add_noisy" /\ mi = NMetrics)
       /\ (pc' \in AfterFiles /\ pc \notin AfterFiles) =>
              (pc = "for_files" /\ fi = cfg.n_files)]_vars

\* C18 witness: both metrics have added the second file and the callback of
\* that file is about to be invoked.
C18_Witness ==
    /\ cfg.loop = "corpus"
    /\ pc = "save_cb"
    /\ fi = 2
    /\ NMetrics = 2
    /\ Len(jobs) = 8

\* C19 (as claimed): whatever the length of the signal, the worker invokes
\* compute_metric of a remote metric with the signal as its one argument, so
\* no submission of add ends with a TypeError of the call.
C19_SignalIsTheOneArgument ==
    cfg.loop = "dns" =>
        \A j \in 1..Len(jobs) :
            /\ jobs[j].nargs = Arity("dns")
            /\ jobs[j].exc # "TypeError"

\* the files a metric submitted a baseline computation for that succeeded,
\* and the files its baseline records under position i are of
BaselineSucceeded(m) ==
    {FileName(jobs[j].f) : j \in {q \in JobsOf(m) : jobs[q].kind = "noisy" /\ jobs[q].ok}}
BaselineRecorded(m, i) ==
    {noisy_values[m][i].v[r][1] : r \in 1..Len(noisy_values[m][i].v)}

BaselineComplete(m) ==
    /\ \A j \in JobsOf(m) : jobs[j].kind = "noisy" => jobs[j].st = "ready"
    /\ \A i \in 1..Len(noisy_values[m]) :
          /\ BaselineRecorded(m, i) = BaselineSucceeded(m)
          /\ Len(noisy_values[m][i].v) = Cardinality(BaselineSucceeded(m))

\* C20: whenever mean() of a metric sharing the pool returns, and ever after,
\* its baseline records are those of the files whose baseline computation it
\* submitted and that succeeded; and the close of an earlier metric loses no
\* computation: whatever is outstanding in the closed pool gets completed.
C20_CloseLosesNothing ==
    /\ [](cfg.loop = "corpus" =>
            /\ pc = "mean_super" => BaselineComplete(mi)
            /\ ret.op = "mean" => \A m \in 1..ret.m : BaselineComplete(m))
    /\ (pool.state = "CLOSE" /\ Outstanding # {}) ~> (Outstanding = {})

\* C20 witness: the first metric has closed the pool while a baseline
\* computation of the second metric is still outstanding.
C20_Witness ==
    /\ cfg.loop = "corpus"
    /\ pc = "mean_join"
    /\ mi = 1
    /\ pool.state = "CLOSE"
    /\ \E j \in Outstanding : jobs[j].m = 2 /\ jobs[j].kind = "noisy"

====
